---- MODULE Spec2Model ----
(***************************************************************************)
(* BundlrStorageDriver (src/src/plugins/bundlrStorage/                     *)
(* BundlrStorageDriver.ts) as a state machine.                             *)
(*                                                                         *)
(* One driver instance serves the public operations of Calls, which may     *)
(* overlap.  JavaScript runs one continuation at a time, so a step of the  *)
(* model is one run of driver code between two requests to the storage     *)
(* client: the call of a public method up to its first request, or the     *)
(* arrival of a response and the code that follows it up to the next       *)
(* request.  An await of an already settled promise (the fast path of      *)
(* getBundlr) does no input or output and stays inside the step.           *)
(*                                                                         *)
(* The storage network (ledger balance, price, status codes, upload        *)
(* identifiers) is an external collaborator: its answers are chosen        *)
(* nondeterministically from the small sets below.                         *)
(*                                                                         *)
(* The metadata mapper (src/packages/js/src/plugins/nftModule/Metadata.ts) *)
(* is a second, independent program: three pure functions, applied by the  *)
(* actions of SpecMapper to inputs drawn from bounded sets.                *)
(***************************************************************************)
EXTENDS Integers, Sequences, FiniteSets, TLC

\* ---------------------------------------------------------------- bounds
MaxFiles == 2         \* files of one uploadAll batch
UnitPrice == 5001     \* network price of one byte, smallest units
MaxSize == 2          \* largest on-chain number of a decoded account

\* --------------------------------------------------- program constants
MinimumBalance == 5000            \* SolAmount.fromLamports(5000)
DefaultPriceMultiplierPct == 150  \* priceMultiplier ?? 1.5, in hundredths
FailureStatus == 300              \* status >= 300
NoClient == 0                     \* this.bundlr = null

\* ------------------------------------------------- environment's answers
Calls == {1, 2}                              \* public operations invoked on the instance
FileSizes == {1}                             \* file.getBytes()
InitialBalances == {0, 5000, 10000}          \* ledger balance at construction
UploadStatuses == {299, 300}                 \* status of uploader.upload
WithdrawStatuses == {299, 300}               \* status of withdrawBalance
WithdrawAmounts == {0, 1000}                 \* argument of a direct withdraw
PriceMultipliers == {<<>>}                    \* options.priceMultiplier: not given
WithdrawOptions == {<<>>}                     \* options.withdrawAfterUploading: not given
Identities == {"KeypairIdentityDriver", "WalletAdapterIdentityDriver"}
Batches == UNION {[1..n -> FileSizes] : n \in 0..MaxFiles}

None == <<>>
Some(v) == <<v>>
Val(o) == o[1]

VARIABLES
    bundlr,                    \* this.bundlr: NoClient or the memoized client
    _withdrawAfterUploading,   \* this._withdrawAfterUploading
    options,                   \* this.options (priceMultiplier)
    identity,                  \* class of this.metaplex.identity()
    constructed,               \* clients constructed so far (new NodeBundlr / new WebBundlr)
    loadedBalance,             \* the network's funded balance of the account
    accepted,                  \* uploads the network accepted so far
    awaited,                   \* the caller awaits each operation before the next
    calls,                     \* calls[c]: the frame of public operation c
    log,                       \* log[c]: requests and responses of call c, in order
    mapper                     \* latest calls of the metadata mapper's functions

vars == <<bundlr, _withdrawAfterUploading, options, identity, constructed,
          loadedBalance, accepted, awaited, calls, log, mapper>>

\* -------------------------------------------------------------- frames
\* A frame is one running async call: a public operation, or one uploadFile
\* promise of an uploadAll batch (kept in the parent's field up).
NewFrame(op, files, skip, lamports, index) ==
    [op |-> op,                  \* the public method, or "uploadFile"
     index |-> index,            \* position of an uploadFile in its batch, else 0
     stack |-> <<>>,             \* active functions, innermost last
     pc |-> "idle",              \* the client request awaited, "Promise.all", "done", "failed"
     client |-> NoClient,        \* const bundlr of the running getBundlr (line 187)
     handle |-> None,            \* value of the latest `await this.getBundlr()`
     files |-> files,            \* filesOrBytes / files / <<file>>
     skipBalanceCheck |-> skip,
     lamports |-> lamports,      \* argument of withdraw
     price |-> None,             \* fundingNeeded: const price (line 72)
     balance |-> None,           \* fundingNeeded: const balance (line 79)
     fundingNeeded |-> None,     \* fund: const fundingNeeded (line 98)
     allBalance |-> None,        \* withdrawAll: const balance (line 139)
     status |-> None,            \* status of upload / withdrawBalance
     id |-> None,                \* data.id of the upload
     up |-> <<>>,                \* uploadAll: const promises (line 57)
     order |-> <<>>,             \* indices of promises in the order they settled
     uris |-> None,              \* uploadAll: const uris (line 59)
     result |-> None,
     error |-> None]

Idle == NewFrame("", <<>>, FALSE, None, 0)

\* A machine: the frame being run together with the driver fields and the
\* call's log that the run may change.
Machine(f, b, n, l) == [f |-> f, bundlr |-> b, constructed |-> n, log |-> l]

Logged(m, ev, arg) == [m EXCEPT !.log = Append(@, [ev |-> ev, arg |-> arg])]

Top(s) == s[Len(s)]
Pop(s) == SubSeq(s, 1, Len(s) - 1)

\* A rejected promise: no function of the driver catches, so the rejection
\* reaches the frame's caller.
Throw(m, kind, payload) ==
    [m EXCEPT !.f.pc = "failed", !.f.stack = <<>>, !.f.error = Some(<<kind, payload>>)]

\* ------------------------------------------------------- pure functions
RECURSIVE SumBytes(_)
SumBytes(files) == IF files = <<>> THEN 0 ELSE Head(files) + SumBytes(Tail(files))

\* getBytes (lines 108-114): the total size of the files.
getBytes(files) == SumBytes(files)

\* bundlr.getPrice(bytes): the network's price for that many bytes.
NetworkPrice(bytes) == bytes * UnitPrice

\* this.options.priceMultiplier ?? 1.5, in hundredths.
PriceMultiplierPct == IF options.priceMultiplier = None
                      THEN DefaultPriceMultiplierPct
                      ELSE Val(options.priceMultiplier)

\* price.multipliedBy(m).decimalPlaces(0): bignumber.js rounds half up.
MultipliedPrice(price) == (2 * price * PriceMultiplierPct + 100) \div 200

\* line 81: price.isGreaterThan(balance) ? price.minus(balance) : new BigNumber(0)
FundingNeededNoFloor(price, balance) == price - balance
FundingNeededValue(price, balance) == IF price > balance THEN price - balance ELSE 0

\* line 100: fundingNeeded.isGreaterThan(0)
AlwaysDeposit(needed) == TRUE
NeedsDeposit(needed) == needed > 0

\* line 130: status >= 300
UploadFailed(status) == status >= FailureStatus

\* line 134: `https://arweave.net/${data.id}`
UriWithoutPrefix(id) == id
Uri(id) == "https://arweave.net/" \o id

\* data.id: the network names each accepted upload by a fresh transaction id.
TxId(n) == "tx" \o ToString(n)

\* line 142: balance.isLessThan(minimumBalance)
ReserveCheckInverted(balance) == balance > MinimumBalance
BelowReserve(balance) == balance < MinimumBalance

\* line 146: balance.minus(minimumBalance).getLamports()
WholeBalance(balance) == balance
BalanceToWithdraw(balance) == balance - MinimumBalance

\* line 153: new BigNumber(lamports), the amount handed to withdrawBalance
WithdrawArgument(f) == Val(f.lamports)

\* line 155: status >= 300
WithdrawFailedAbove(status) == status > FailureStatus
WithdrawFailed(status) == status >= FailureStatus

\* line 33: options.withdrawAfterUploading ?? true
DefaultsToFalse(o) ==
    IF o.withdrawAfterUploading = None THEN FALSE ELSE Val(o.withdrawAfterUploading)
WithdrawAfterUploadingOption(o) ==
    IF o.withdrawAfterUploading = None THEN TRUE ELSE Val(o.withdrawAfterUploading)

\* lines 160-162
AlwaysWithdraw == TRUE
shouldWithdrawAfterUploading == _withdrawAfterUploading

\* line 177: if (this.bundlr)
NeverMemoized(handle) == FALSE
Memoized(handle) == handle # NoClient

\* line 188: identity instanceof KeypairIdentityDriver ? NodeBundlr : WebBundlr
NeverWebBundlr == FALSE
IsWebBundlr == identity # "KeypairIdentityDriver"

\* line 180: this.options?.address ?? 'https://node1.bundlr.network'
BundlrAddress == "https://node1.bundlr.network"

\* The error a rejected request of the client carries.
Cause(req) == req \o " rejected"

\* line 59: Promise.all keeps the order of the promises, not of their settling.
InSettlingOrder(up, order) == [k \in 1..Len(order) |-> Val(up[order[k]].result)]
PromiseAll(up, order) == [i \in 1..Len(up) |-> Val(up[i].result)]

\* line 105: the amount handed to bundlr.fund
HalfOfNeeded(f) == Val(f.fundingNeeded) \div 2
FundArgument(f) == Val(f.fundingNeeded)

\* ------------------------------------------------- the driver's functions
\* A request to the client: the frame waits for its response.
Request(m, req, arg) == Logged([m EXCEPT !.f.pc = req], req, arg)

RECURSIVE Call(_, _), Return(_, _), Dispatch(_, _), AwaitAll(_)
RECURSIVE AfterGetBundlr(_, _, _), AfterGetMultipliedPrice(_, _, _)
RECURSIVE AfterFundingNeeded(_, _, _), AfterGetBalance(_, _)

\* line 59: a rejected Promise.all rejects uploadAll, which runs no further.
WithdrawsDespite(m, err) == Call([m EXCEPT !.f.uris = Some(<<>>)], "withdrawAll")
Reject(m, err) == [m EXCEPT !.f.pc = "failed", !.f.stack = <<>>, !.f.error = err]

\* Call(m, fn): the frame calls fn, which runs up to its first request.
Call(m, fn) ==
    LET m1 == [m EXCEPT !.f.stack = Append(@, fn)] IN
    CASE fn = "getBundlr" ->
            \* lines 177-194
            IF Memoized(m.bundlr)
            THEN Return(m1, m.bundlr)
            ELSE Request([m1 EXCEPT !.f.client = m.constructed + 1,
                                    !.constructed = @ + 1],
                         "getBundlerAddress", m.constructed + 1)
      [] fn \in {"getBalance", "fund", "getMultipliedPrice", "uploadFile", "withdraw"} ->
            \* lines 37, 97, 117, 124, 151
            Call(m1, "getBundlr")
      [] fn \in {"getPrice", "fundingNeeded"} -> Call(m1, "getMultipliedPrice")  \* 44, 72
      [] fn = "upload" -> Call(m1, "uploadAll")                                  \* 50
      [] fn = "uploadAll" ->
            \* line 56; the log notes the flag's value at the call
            Call(Logged(m1, "uploadAll", _withdrawAfterUploading), "fund")
      [] fn = "withdrawAll" -> Call(m1, "getBalance")                            \* 139

\* Return(m, v): the innermost function returns v and its caller goes on up
\* to its next request; the frame is done when no caller is left.
Return(m, v) ==
    LET callee == Top(m.f.stack)
        rest == Pop(m.f.stack)
        m1 == [m EXCEPT !.f.stack = rest]
    IN
    IF rest = <<>> THEN [m1 EXCEPT !.f.pc = "done", !.f.result = Some(v)]
    ELSE
    LET caller == Top(rest) IN
    CASE callee = "getBundlr" -> AfterGetBundlr(m1, caller, v)
      [] callee = "getMultipliedPrice" -> AfterGetMultipliedPrice(m1, caller, v)
      [] callee = "fundingNeeded" -> AfterFundingNeeded(m1, caller, v)
      [] callee = "fund" -> AwaitAll(Dispatch(m1, 1))                     \* 56-59
      [] callee = "getBalance" -> AfterGetBalance(m1, v)
      [] callee = "withdraw" -> Return(m1, "undefined")                   \* 147-148
      [] callee = "withdrawAll" -> Return(m1, Val(m1.f.uris))             \* 62-65
      [] callee = "uploadAll" -> Return(m1, Head(v))                      \* 50-52

\* What each caller of getBundlr does with the client it awaited.
AfterGetBundlr(m, caller, v) ==
    LET m2 == [m EXCEPT !.f.handle = Some(v)] IN
    CASE caller \in {"getBalance", "fundingNeeded"} ->
            Request(m2, "getLoadedBalance", v)                            \* 38, 79
      [] caller = "getMultipliedPrice" ->
            Request(m2, "getPrice", getBytes(m2.f.files))                 \* 118
      [] caller = "fund" -> Call(m2, "fundingNeeded")                     \* 98
      [] caller = "uploadFile" -> Request(m2, "upload", m2.f.index)       \* 125
      [] caller = "withdraw" ->
            Request(m2, "withdrawBalance", WithdrawArgument(m2.f))        \* 153

\* getPrice (line 46) and fundingNeeded (lines 72-78) after getMultipliedPrice.
AfterGetMultipliedPrice(m, caller, v) ==
    IF caller = "getPrice" THEN Return(m, v)
    ELSE LET m2 == [m EXCEPT !.f.price = Some(v)] IN
         IF m2.f.skipBalanceCheck THEN Return(m2, v) ELSE Call(m2, "getBundlr")

\* fund (lines 98-105) after fundingNeeded.
AfterFundingNeeded(m, caller, v) ==
    LET m2 == [m EXCEPT !.f.fundingNeeded = Some(v)] IN
    IF ~NeedsDeposit(v) THEN Return(m2, "undefined")
    ELSE Request(m2, "fund", FundArgument(m2.f))

\* withdrawAll (lines 139-147) after getBalance.
AfterGetBalance(m, v) ==
    LET m2 == [m EXCEPT !.f.allBalance = Some(v)] IN
    IF BelowReserve(v) THEN Return(m2, "undefined")
    ELSE Call([m2 EXCEPT !.f.lamports = Some(BalanceToWithdraw(v))], "withdraw")

\* line 57: files.map((file) => this.uploadFile(file)), from file i on.
Dispatch(m, i) ==
    IF i > Len(m.f.files) THEN m
    ELSE LET child == NewFrame("uploadFile", <<m.f.files[i]>>, FALSE, None, i)
             cm == Call(Machine(child, m.bundlr, m.constructed, m.log), "uploadFile")
         IN Dispatch([m EXCEPT !.f.up = Append(@, cm.f),
                               !.bundlr = cm.bundlr,
                               !.constructed = cm.constructed,
                               !.log = cm.log], i + 1)

\* line 61: this.shouldWithdrawAfterUploading(), read after the uploads.
DecidedWhenCalled(m) == Head(m.log).arg
WithdrawDecision(m) == shouldWithdrawAfterUploading

\* lines 59-65: await Promise.all(promises) and what follows it.  The join
\* rejects with the first promise that rejected and resolves when all did; the
\* log notes the flag's value at that moment.
AwaitAll(m) ==
    LET up == m.f.up
        failed == SelectSeq(m.f.order, LAMBDA i : up[i].pc = "failed")
    IN
    IF failed # <<>> THEN Reject(m, up[Head(failed)].error)
    ELSE IF \A i \in 1..Len(up) : up[i].pc = "done"
    THEN LET m1 == Logged([m EXCEPT !.f.uris = Some(PromiseAll(up, m.f.order))],
                          "Promise.all.resolved", _withdrawAfterUploading)
         IN
         IF WithdrawDecision(m1)
         THEN Call(m1, "withdrawAll")
         ELSE Return(m1, Val(m1.f.uris))
    ELSE [m EXCEPT !.f.pc = "Promise.all"]

\* ------------------------------------------------- the metadata mapper
\* A JavaScript value as isMetadata sees it: its typeof, whether it is null,
\* and its property model (None: reading it gives undefined).
JsValue(type, isNull, model) == [typeof |-> type, isNull |-> isNull, model |-> model]
JsUndefined == JsValue("undefined", FALSE, None)
JsNull == JsValue("object", TRUE, None)
JsObject(model) == JsValue("object", FALSE, model)
Values ==
    {JsUndefined, JsNull, JsValue("number", FALSE, None), JsValue("string", FALSE, None),
     JsObject(None), JsObject(Some("nft")), JsObject(Some("metadata"))}

\* How a call ended: it returned a value or threw an error.
Returned(v) == [kind |-> "return", value |-> v, error |-> ""]
Thrown(e) == [kind |-> "throw", value |-> FALSE, error |-> e]

\* value.model: a property read of null or undefined throws a TypeError.
HasProperties(value) == ~value.isNull /\ value.typeof # "undefined"

\* lines 114-115: typeof value === 'object' && value.model === 'metadata'
isMetadata(value) ==
    IF value.typeof # "object" THEN Returned(FALSE)
    ELSE IF ~HasProperties(value) THEN Thrown("TypeError")
    ELSE Returned(value.model = Some("metadata"))

\* lines 117-119: assert(isMetadata(value), `Expected Metadata model`)
assertMetadata(value) ==
    LET r == isMetadata(value) IN
    IF r.kind = "throw" THEN r
    ELSE IF ~r.value THEN Thrown("AssertionError: Expected Metadata model")
    ELSE Returned(TRUE)

\* The second argument of toMetadata: undefined, null or a document.
JsonUndefined == "undefined"
JsonNull == "null"
JsonValues == {JsonUndefined, JsonNull, "{name: N}"}
JsonArguments == {<<>>} \cup {<<j>> : j \in JsonValues}

\* A decoded MetadataAccount (account.data); an Option field is None or Some.
Sizes == 0..MaxSize
Nul == "NUL"
Names == {<<"N">>, <<"N", Nul, Nul>>}
CreatorLists ==
    {None, Some(<<>>), Some(<<[address |-> "creator", verified |-> TRUE, share |-> 100]>>)}
Collections == {None, Some([verified |-> TRUE, key |-> "parent"])}
CollectionDetails == {None} \cup {Some([__kind |-> "V1", size |-> n]) : n \in Sizes}
Uses == {None, Some([useMethod |-> "Burn", remaining |-> 0, total |-> MaxSize])}
Accounts ==
    [mint : {"mint"}, updateAuthority : {"authority"},
     name : Names, symbol : {<<"S", Nul>>}, uri : {<<"u">>},
     isMutable : {TRUE}, primarySaleHappened : {FALSE}, sellerFeeBasisPoints : {250},
     editionNonce : {Some(255)}, tokenStandard : {None},
     creators : CreatorLists, collection : Collections,
     collectionDetails : CollectionDetails, uses : Uses]

\* findMetadataPda(mint): the address derived from the mint.
findMetadataPda(mint) == [pda |-> "metadata", mint |-> mint]

\* removeEmptyChars: the string without its NUL characters.
removeEmptyChars(value) == SelectSeq(value, LAMBDA ch : ch # Nul)

\* toBigNumber: the same number as an arbitrary-precision BigNumber.
toBigNumber(n) == [bignumber |-> n]

\* line 128: json ?? null
JsonOrNull(json) == IF json \in {JsonUndefined, JsonNull} THEN JsonNull ELSE json

\* line 129: json !== undefined
LoadedUnlessNull(json) == json \notin {JsonUndefined, JsonNull}
JsonLoaded(json) == json # JsonUndefined

\* line 137: creators ?? []
CreatorsOrEmpty(creators) == IF creators = None THEN <<>> ELSE Val(creators)

\* lines 139-144
ParentCollection(collection) ==
    IF collection = None THEN None
    ELSE Some([verified |-> Val(collection).verified, key |-> Val(collection).key,
               address |-> Val(collection).key])

\* lines 145-150
SizeDropped(details) ==
    IF details = None THEN None
    ELSE Some([version |-> Val(details).__kind, size |-> toBigNumber(0)])
MappedCollectionDetails(details) ==
    IF details = None THEN None
    ELSE Some([version |-> Val(details).__kind, size |-> toBigNumber(Val(details).size)])

\* lines 151-157
MappedUses(uses) ==
    IF uses = None THEN None
    ELSE Some([useMethod |-> Val(uses).useMethod,
               remaining |-> toBigNumber(Val(uses).remaining),
               total |-> toBigNumber(Val(uses).total)])

\* lines 120-158: arguments holds what the caller passed after the account.
toMetadata(account, arguments) ==
    LET json == IF arguments = <<>> THEN JsonUndefined ELSE arguments[1] IN
    [model |-> "metadata",
     address |-> findMetadataPda(account.mint),
     mintAddress |-> account.mint,
     updateAuthorityAddress |-> account.updateAuthority,
     json |-> JsonOrNull(json),
     jsonLoaded |-> JsonLoaded(json),
     name |-> removeEmptyChars(account.name),
     symbol |-> removeEmptyChars(account.symbol),
     uri |-> removeEmptyChars(account.uri),
     isMutable |-> account.isMutable,
     primarySaleHappened |-> account.primarySaleHappened,
     sellerFeeBasisPoints |-> account.sellerFeeBasisPoints,
     editionNonce |-> account.editionNonce,
     creators |-> CreatorsOrEmpty(account.creators),
     tokenStandard |-> account.tokenStandard,
     collection |-> ParentCollection(account.collection),
     collectionDetails |-> MappedCollectionDetails(account.collectionDetails),
     uses |-> MappedUses(account.uses)]

\* The latest call of each function: its argument and how it ended.
NoMapperCall ==
    [value |-> None, isMetadata |-> None, assertMetadata |-> None,
     account |-> None, arguments |-> None, metadata |-> None]

\* ----------------------------------------------------------- the state
\* lines 23-34: the driver as constructed, on a ledger with some balance.
Init ==
    /\ bundlr = NoClient
    /\ options \in [priceMultiplier : PriceMultipliers,
                    withdrawAfterUploading : WithdrawOptions]
    /\ _withdrawAfterUploading = WithdrawAfterUploadingOption(options)
    /\ identity \in Identities
    /\ constructed = 0
    /\ loadedBalance \in InitialBalances
    /\ accepted = 0
    /\ awaited \in BOOLEAN
    /\ calls = [c \in Calls |-> Idle]
    /\ log = [c \in Calls |-> <<>>]
    /\ mapper = NoMapperCall

\* The frame i of call c: the call itself (i = 0) or its i-th uploadFile.
FrameOf(c, i) == IF i = 0 THEN calls[c] ELSE calls[c].up[i]
Waiting(c, i, req) == i <= Len(calls[c].up) /\ FrameOf(c, i).pc = req
Run(c, i) == Machine(FrameOf(c, i), bundlr, constructed, log[c])

\* The parent of a settled uploadFile: Promise.all sees it if uploadAll still waits.
Settle(c, i, m) ==
    LET settled == m.f.pc \in {"done", "failed"}
        parent == [calls[c] EXCEPT !.up[i] = m.f,
                                   !.order = IF settled THEN Append(@, i) ELSE @]
        pm == Machine(parent, m.bundlr, m.constructed, m.log)
    IN IF calls[c].pc = "Promise.all" /\ settled THEN AwaitAll(pm) ELSE pm

\* The step's effect on the driver and on call c.
Commit(c, i, m) ==
    LET pm == IF i = 0 THEN m ELSE Settle(c, i, m) IN
    /\ calls' = [calls EXCEPT ![c] = pm.f]
    /\ bundlr' = pm.bundlr
    /\ constructed' = pm.constructed
    /\ log' = [log EXCEPT ![c] = pm.log]

\* ------------------------------------------------ the public operations
\* The promise of call c has settled (or c was not invoked yet).
Settled(c) == calls[c].pc \in {"idle", "done", "failed"}

\* Calls are numbered in the order of their invocation.
CanStart(c) ==
    /\ calls[c].pc = "idle"
    /\ \A d \in Calls : d < c => calls[d].pc # "idle"
    /\ awaited => \A d \in Calls : Settled(d)

\* The caller invokes public method fn: it runs up to its first request.
Begin(c, fn, files, skip, lamports) ==
    Call(Machine(NewFrame(fn, files, skip, lamports, 0), bundlr, constructed, log[c]), fn)

\* What a step of a call leaves alone, the ledger apart.
rest == <<awaited, _withdrawAfterUploading, options, identity, mapper>>

\* lines 36-41
getBalance(c) ==
    /\ CanStart(c)
    /\ Commit(c, 0, Begin(c, "getBalance", <<>>, FALSE, None))
    /\ UNCHANGED <<rest, loadedBalance, accepted>>

\* lines 43-47
getPrice(c, files) ==
    /\ CanStart(c)
    /\ Commit(c, 0, Begin(c, "getPrice", files, FALSE, None))
    /\ UNCHANGED <<rest, loadedBalance, accepted>>

\* lines 49-53
upload(c, file) ==
    /\ CanStart(c)
    /\ Commit(c, 0, Begin(c, "upload", <<file>>, FALSE, None))
    /\ UNCHANGED <<rest, loadedBalance, accepted>>

\* lines 55-66
uploadAll(c, files) ==
    /\ CanStart(c)
    /\ Commit(c, 0, Begin(c, "uploadAll", files, FALSE, None))
    /\ UNCHANGED <<rest, loadedBalance, accepted>>

\* lines 68-82
fundingNeeded(c, files, skip) ==
    /\ CanStart(c)
    /\ Commit(c, 0, Begin(c, "fundingNeeded", files, skip, None))
    /\ UNCHANGED <<rest, loadedBalance, accepted>>

\* lines 93-106
fund(c, files, skip) ==
    /\ CanStart(c)
    /\ Commit(c, 0, Begin(c, "fund", files, skip, None))
    /\ UNCHANGED <<rest, loadedBalance, accepted>>

\* lines 137-148
withdrawAll(c) ==
    /\ CanStart(c)
    /\ Commit(c, 0, Begin(c, "withdrawAll", <<>>, FALSE, None))
    /\ UNCHANGED <<rest, loadedBalance, accepted>>

\* lines 150-158
withdraw(c, lamports) ==
    /\ CanStart(c)
    /\ Commit(c, 0, Begin(c, "withdraw", <<>>, FALSE, Some(lamports)))
    /\ UNCHANGED <<rest, loadedBalance, accepted>>

\* lines 176-211
getBundlr(c) ==
    /\ CanStart(c)
    /\ Commit(c, 0, Begin(c, "getBundlr", <<>>, FALSE, None))
    /\ UNCHANGED <<rest, loadedBalance, accepted>>

\* lines 164-168
withdrawAfterUploading ==
    /\ _withdrawAfterUploading' = TRUE
    /\ UNCHANGED <<bundlr, options, identity, constructed, loadedBalance, accepted, awaited,
                   calls, log, mapper>>

\* lines 170-174
dontWithdrawAfterUploading ==
    /\ _withdrawAfterUploading' = FALSE
    /\ UNCHANGED <<bundlr, options, identity, constructed, loadedBalance, accepted, awaited,
                   calls, log, mapper>>

\* ------------------------------------------------ the client's responses
\* lines 195-197: the reachability check failed; this.bundlr is not assigned.
MemoizedBeforeCheck(m) ==
    Throw([m EXCEPT !.bundlr = m.f.client], "FailedToConnectToBundlrAddressError",
          <<BundlrAddress, Cause("getBundlerAddress")>>)
ConnectionFailed(m) ==
    Throw(m, "FailedToConnectToBundlrAddressError",
          <<BundlrAddress, Cause("getBundlerAddress")>>)

\* lines 192-210: bundlr.utils.getBundlerAddress(currency) settled.
getBundlerAddressSettled(c, i, ok) ==
    /\ Waiting(c, i, "getBundlerAddress")
    /\ LET m == Logged(Run(c, i), "getBundlerAddress.settled", ok) IN
       Commit(c, i,
              IF ~ok THEN ConnectionFailed(m)
              ELSE IF IsWebBundlr THEN Request(m, "ready", m.f.client)
              ELSE Return([m EXCEPT !.bundlr = m.f.client], m.f.client))
    /\ UNCHANGED <<rest, loadedBalance, accepted>>

\* lines 199-210: bundlr.ready() settled.
readySettled(c, i, ok) ==
    /\ Waiting(c, i, "ready")
    /\ LET m == Logged(Run(c, i), "ready.settled", ok) IN
       Commit(c, i,
              IF ~ok THEN Throw(m, "FailedToInitializeBundlrError", <<Cause("ready")>>)
              ELSE Return([m EXCEPT !.bundlr = m.f.client], m.f.client))
    /\ UNCHANGED <<rest, loadedBalance, accepted>>

\* lines 118-120: bundlr.getPrice(bytes) resolved.
getPriceResolved(c) ==
    /\ Waiting(c, 0, "getPrice")
    /\ LET price == NetworkPrice(getBytes(calls[c].files))
           m == Logged(Run(c, 0), "getPrice.resolved", price)
       IN Commit(c, 0, Return(m, MultipliedPrice(price)))
    /\ UNCHANGED <<rest, loadedBalance, accepted>>

\* lines 38-40 and 79-81: bundlr.getLoadedBalance() resolved.
getLoadedBalanceResolved(c) ==
    /\ Waiting(c, 0, "getLoadedBalance")
    /\ LET m == Logged(Run(c, 0), "getLoadedBalance.resolved", loadedBalance) IN
       Commit(c, 0,
              IF Top(m.f.stack) = "getBalance" THEN Return(m, loadedBalance)
              ELSE Return([m EXCEPT !.f.balance = Some(loadedBalance)],
                          FundingNeededValue(Val(m.f.price), loadedBalance)))
    /\ UNCHANGED <<rest, loadedBalance, accepted>>

\* line 105: bundlr.fund(fundingNeeded) settled; a rejection is not wrapped.
fundSettled(c, ok) ==
    /\ Waiting(c, 0, "fund")
    /\ LET m == Logged(Run(c, 0), "fund.settled", ok) IN
       /\ Commit(c, 0, IF ok THEN Return(m, "undefined") ELSE Throw(m, "Error", "fund"))
       /\ loadedBalance' = IF ok THEN loadedBalance + FundArgument(m.f) ELSE loadedBalance
    /\ UNCHANGED <<rest, accepted>>

\* lines 125-134: bundlr.uploader.upload resolved with {status, data}.  The
\* network charges its price for an upload it accepted and names it.
uploadResolved(c, i, status) ==
    /\ i > 0
    /\ Waiting(c, i, "upload")
    /\ LET ok == status < FailureStatus
           id == IF ok THEN Some(TxId(accepted + 1)) ELSE None
           m0 == Logged(Run(c, i), "upload.resolved", <<i, status>>)
           m == [m0 EXCEPT !.f.status = Some(status), !.f.id = id]
           cost == NetworkPrice(getBytes(m.f.files))
       IN
       /\ Commit(c, i, IF UploadFailed(status)
                       THEN Throw(m, "AssetUploadFailedError", status)
                       ELSE Return(m, Uri(Val(m.f.id))))
       /\ accepted' = IF ok THEN accepted + 1 ELSE accepted
       /\ loadedBalance' = IF ok /\ cost <= loadedBalance
                           THEN loadedBalance - cost
                           ELSE loadedBalance
    /\ UNCHANGED rest

\* lines 153-157: bundlr.withdrawBalance resolved with {status}.  The network
\* accepts a withdrawal only if the balance covers it.
withdrawBalanceResolved(c, status) ==
    /\ Waiting(c, 0, "withdrawBalance")
    /\ LET m0 == Logged(Run(c, 0), "withdrawBalance.resolved", status)
           m == [m0 EXCEPT !.f.status = Some(status)]
           amount == WithdrawArgument(m.f)
       IN
       /\ status < FailureStatus => amount <= loadedBalance
       /\ Commit(c, 0, IF WithdrawFailed(status)
                       THEN Throw(m, "BundlrWithdrawError", status)
                       ELSE Return(m, "undefined"))
       /\ loadedBalance' = IF status < FailureStatus
                           THEN loadedBalance - amount
                           ELSE loadedBalance
    /\ UNCHANGED <<rest, accepted>>

Next ==
    \/ \E c \in Calls : getBalance(c)
    \/ \E c \in Calls, files \in Batches : getPrice(c, files)
    \/ \E c \in Calls, file \in FileSizes : upload(c, file)
    \/ \E c \in Calls, files \in Batches : uploadAll(c, files)
    \/ \E c \in Calls, files \in Batches, skip \in BOOLEAN : fundingNeeded(c, files, skip)
    \/ \E c \in Calls, files \in Batches, skip \in BOOLEAN : fund(c, files, skip)
    \/ \E c \in Calls : withdrawAll(c)
    \/ \E c \in Calls, lamports \in WithdrawAmounts : withdraw(c, lamports)
    \/ \E c \in Calls : getBundlr(c)
    \/ withdrawAfterUploading
    \/ dontWithdrawAfterUploading
    \/ \E c \in Calls, i \in 0..MaxFiles, ok \in BOOLEAN : getBundlerAddressSettled(c, i, ok)
    \/ \E c \in Calls, i \in 0..MaxFiles, ok \in BOOLEAN : readySettled(c, i, ok)
    \/ \E c \in Calls : getPriceResolved(c)
    \/ \E c \in Calls : getLoadedBalanceResolved(c)
    \/ \E c \in Calls, ok \in BOOLEAN : fundSettled(c, ok)
    \/ \E c \in Calls, i \in 1..MaxFiles, status \in UploadStatuses :
          uploadResolved(c, i, status)
    \/ \E c \in Calls, status \in WithdrawStatuses : withdrawBalanceResolved(c, status)

\* The caller awaits each operation before it invokes the next one.
InitAwaited == Init /\ awaited = TRUE
Spec == InitAwaited /\ [][Next]_vars

\* The caller invokes operations without awaiting the earlier ones, on a
\* ledger whose balance is at the reserve; the driver was constructed for a
\* wallet identity, whose client takes both checks.
InitOverlap ==
    /\ Init /\ awaited = FALSE /\ loadedBalance = MinimumBalance
    /\ identity = "WalletAdapterIdentityDriver"
SpecOverlap == InitOverlap /\ [][Next]_vars

\* --------------------------------------- the metadata mapper's callers
driver == <<bundlr, _withdrawAfterUploading, options, identity, constructed,
            loadedBalance, accepted, awaited, calls, log>>

\* The call forgets what the other function said of another value.
About(value, outcome) == IF mapper.value = Some(value) THEN outcome ELSE None

\* lines 114-115
isMetadataCalled(value) ==
    /\ mapper' = [mapper EXCEPT !.value = Some(value),
                                !.isMetadata = Some(isMetadata(value)),
                                !.assertMetadata = About(value, @)]
    /\ UNCHANGED driver

\* lines 117-119
assertMetadataCalled(value) ==
    /\ mapper' = [mapper EXCEPT !.value = Some(value),
                                !.assertMetadata = Some(assertMetadata(value)),
                                !.isMetadata = About(value, @)]
    /\ UNCHANGED driver

\* lines 120-158
toMetadataCalled(account, arguments) ==
    /\ mapper' = [mapper EXCEPT !.account = Some(account),
                                !.arguments = Some(arguments),
                                !.metadata = Some(toMetadata(account, arguments))]
    /\ UNCHANGED driver

NextMapper ==
    \/ \E value \in Values : isMetadataCalled(value)
    \/ \E value \in Values : assertMetadataCalled(value)
    \/ \E account \in Accounts, arguments \in JsonArguments :
          toMetadataCalled(account, arguments)

\* The mapper's functions are called in any order; no driver call is made.
InitMapper ==
    /\ Init /\ awaited = TRUE /\ loadedBalance = 0
    /\ identity = "KeypairIdentityDriver"
SpecMapper == InitMapper /\ [][NextMapper]_vars

\* =============================================================== claims
Events(c, ev) == SelectSeq(log[c], LAMBDA e : e.ev = ev)
Deposits(c) == Events(c, "fund")
Withdrawals(c) == Events(c, "withdrawBalance")
ErrorKind(f) == IF f.error = None THEN "" ELSE Val(f.error)[1]
ErrorPayload(f) == Val(f.error)[2]
Invoked(c) == calls[c].pc = "idle" /\ calls'[c].pc # "idle"
InitFailed(c) ==
    ErrorKind(calls[c]) \in {"FailedToConnectToBundlrAddressError",
                            "FailedToInitializeBundlrError"}
IsBatch(c) == calls[c].op \in {"uploadAll", "upload"}

\* C1: over the life of a driver instance, whatever the interleaving of its
\* operations, at most one client is constructed and checked for reachability.
C1_InitializedAtMostOnce == constructed <= 1

\* C2: once a client is memoized in this.bundlr, every later state holds the
\* same client there.
C2_MemoizedPermanently == [][bundlr # NoClient => bundlr' = bundlr]_vars

\* C3 (as claimed): after an initialization failed, no later step constructs
\* another client and the instance never becomes Ready.
C3_FailureIsTerminal ==
    [][(\E c \in Calls : InitFailed(c))
         => (constructed' = constructed /\ bundlr' = NoClient)]_vars

\* C3 (amended): a failed initialization fails the operation that made it
\* without another attempt and without memoizing its client; the failure is not
\* remembered, so the next operation invoked while the handle is unset makes a
\* fresh connection attempt.
C3_FailureIsNotRemembered ==
    /\ [](\A c \in Calls : InitFailed(c) => bundlr # calls[c].client)
    /\ [][\A c \in Calls :
            /\ (~InitFailed(c) /\ InitFailed(c)')
                 => (bundlr' = bundlr /\ constructed' = constructed)
            /\ (Invoked(c) /\ bundlr = NoClient /\ (\E d \in Calls : InitFailed(d)))
                 => (constructed' = constructed + 1
                     /\ calls'[c].pc = "getBundlerAddress")]_vars

\* C3 witness: a call failed to initialize and a later call reached Ready.
C3_ReadyAfterFailure ==
    \E c, d \in Calls :
        /\ InitFailed(c) /\ calls[d].pc = "done"
        /\ bundlr = calls[d].client /\ bundlr # NoClient /\ constructed = 2

\* C4 (as claimed): withdrawAll issues no withdrawal when the balance it read
\* is at most the reserve.
C4_NoWithdrawalUpToReserve ==
    \A c \in Calls :
        (calls[c].allBalance # None /\ Val(calls[c].allBalance) <= MinimumBalance)
            => Withdrawals(c) = <<>>

\* C4 (amended): withdrawAll issues no withdrawal when the balance it read is
\* strictly below the reserve of 5000; at exactly 5000 it issues one
\* withdrawal, of amount 0.
C4_NoWithdrawalBelowReserve ==
    \A c \in Calls :
        LET f == calls[c] IN
        f.allBalance # None =>
            /\ Val(f.allBalance) < MinimumBalance => Withdrawals(c) = <<>>
            /\ Val(f.allBalance) = MinimumBalance
                 => Withdrawals(c) = <<[ev |-> "withdrawBalance", arg |-> 0]>>

\* C4 witness: a withdrawAll that read a balance below the reserve returned.
C4_ReturnedBelowReserve ==
    \E c \in Calls :
        /\ calls[c].op = "withdrawAll" /\ calls[c].pc = "done"
        /\ calls[c].allBalance = Some(0)

\* C5: when the balance read by withdrawAll is not below the reserve, exactly
\* one withdrawal is issued, of the balance minus 5000: never negative, never
\* more than the balance less the reserve.
C5_WithdrawsBalanceLessReserve ==
    \A c \in Calls :
        LET f == calls[c] IN
        (f.allBalance # None /\ Val(f.allBalance) >= 5000) =>
            /\ Len(Withdrawals(c)) = 1
            /\ Withdrawals(c)[1].arg = Val(f.allBalance) - 5000
            /\ Withdrawals(c)[1].arg >= 0

\* C5 witness: a withdrawAll that read 10000 withdrew 5000 and returned.
C5_Withdrew5000Of10000 ==
    \E c \in Calls :
        /\ calls[c].pc = "done" /\ calls[c].allBalance = Some(10000)
        /\ Withdrawals(c) = <<[ev |-> "withdrawBalance", arg |-> 5000]>>

\* The position in the log of call c of the first event ev, 0 if none.
First(c, ev) ==
    IF \E p \in 1..Len(log[c]) : log[c][p].ev = ev
    THEN CHOOSE p \in 1..Len(log[c]) :
             log[c][p].ev = ev /\ \A q \in 1..(p - 1) : log[c][q].ev # ev
    ELSE 0
FundReturned(c, p) ==
    /\ \E q \in 1..(p - 1) : log[c][q].ev = "getLoadedBalance.resolved"
    /\ \A q \in 1..Len(log[c]) :
           log[c][q].ev = "fund" =>
               \E r \in (q + 1)..(p - 1) : log[c][r] = [ev |-> "fund.settled", arg |-> TRUE]
UploadsSucceeded(c, p) ==
    \A i \in 1..Len(calls[c].files) :
        \E r \in 1..(p - 1) :
            /\ log[c][r].ev = "upload.resolved"
            /\ log[c][r].arg[1] = i /\ log[c][r].arg[2] < 300

\* The uploads of batch call c: whether every file's upload has returned a
\* status below 300, and whether some upload has returned 300 or above.
Uploaded(c, i) == i <= Len(calls[c].up) /\ calls[c].up[i].status # None
AllAccepted(c) ==
    /\ FundReturned(c, Len(log[c]) + 1)
    /\ \A i \in 1..Len(calls[c].files) : Uploaded(c, i) /\ Val(calls[c].up[i].status) < 300
SomeRefused(c) ==
    \E i \in 1..Len(calls[c].files) : Uploaded(c, i) /\ Val(calls[c].up[i].status) >= 300
Positional(c) ==
    /\ calls[c].result # None
    /\ Len(Val(calls[c].result)) = Len(calls[c].files)
    /\ \A i \in 1..Len(calls[c].files) :
           Val(calls[c].result)[i] = "https://arweave.net/" \o Val(calls[c].up[i].id)
RefusedAsUploadFailed(c) ==
    /\ calls[c].pc = "failed" /\ calls[c].result = None
    /\ ErrorKind(calls[c]) = "AssetUploadFailedError"
    /\ \E i \in 1..Len(calls[c].files) :
           Uploaded(c, i) /\ ErrorPayload(calls[c]) = Val(calls[c].up[i].status)
           /\ ErrorPayload(calls[c]) >= 300

\* C6 (as claimed): a settled uploadAll of some files whose uploads all
\* returned a status below 300 returned the URIs of its files in the order of the files; one with
\* an upload of status 300 or above failed with AssetUploadFailedError and no URIs.
C6_AllOrNothingPositional ==
    \A c \in Calls :
        (calls[c].op = "uploadAll" /\ calls[c].files # <<>> /\ Settled(c)) =>
            /\ AllAccepted(c) => (calls[c].pc = "done" /\ Positional(c))
            /\ SomeRefused(c) => RefusedAsUploadFailed(c)

\* C6 (amended): an uploadAll that returns returns one URI per file, element i
\* built from the identifier returned for file i, whatever order the uploads
\* completed in, and every upload returned a status below 300; if any upload
\* returns 300 or above the call fails with AssetUploadFailedError and returns
\* no URIs; if the uploads were dispatched and every one returned below 300,
\* the call fails only when the withdrawal after the uploads fails, with
\* BundlrWithdrawError and no URIs.
C6_AllOrNothingUnlessWithdrawFails ==
    \A c \in Calls :
        calls[c].op = "uploadAll" =>
            /\ calls[c].pc = "done" => (AllAccepted(c) /\ Positional(c))
            /\ SomeRefused(c) => RefusedAsUploadFailed(c)
            /\ (calls[c].pc = "failed" /\ AllAccepted(c))
                 => (ErrorKind(calls[c]) = "BundlrWithdrawError" /\ calls[c].result = None)

\* C6 witness: an uploadAll of two files returned although the second upload
\* completed before the first.
C6_ReturnedOutOfOrder ==
    \E c \in Calls :
        /\ calls[c].op = "uploadAll" /\ calls[c].pc = "done"
        /\ Len(calls[c].files) = 2 /\ calls[c].order = <<2, 1>>

\* C7: in one uploadAll no upload is requested before the funding step has
\* returned; a withdrawal is requested only after every upload of the batch
\* returned a status below 300 and only if the flag was true when the uploads
\* were complete; if it was false then, uploadAll returns without a withdrawal.
C7_FundThenUploadsThenWithdraw ==
    \A c \in Calls : IsBatch(c) =>
        /\ \A p \in 1..Len(log[c]) :
              /\ log[c][p].ev = "upload" => FundReturned(c, p)
              /\ log[c][p].ev = "withdrawBalance" =>
                    /\ UploadsSucceeded(c, p)
                    /\ \E r \in 1..(p - 1) :
                           log[c][r] = [ev |-> "Promise.all.resolved", arg |-> TRUE]
        /\ Events(c, "Promise.all.resolved") # <<>> =>
              /\ UploadsSucceeded(c, First(c, "Promise.all.resolved"))
              /\ Events(c, "Promise.all.resolved")[1].arg = FALSE =>
                    (calls[c].pc = "done" /\ Withdrawals(c) = <<>>)

\* C7 witness: an uploadAll of two files deposited, uploaded, withdrew and returned.
C7_FundedUploadedWithdrew ==
    \E c \in Calls :
        /\ calls[c].op = "uploadAll" /\ calls[c].pc = "done" /\ Len(calls[c].files) = 2
        /\ 0 < First(c, "fund.settled")
        /\ First(c, "fund.settled") < First(c, "upload")
        /\ First(c, "upload") < First(c, "Promise.all.resolved")
        /\ First(c, "Promise.all.resolved") < First(c, "withdrawBalance")

\* The value fundingNeeded returned in call c (None while it has not).
Needed(c) ==
    IF calls[c].op = "fundingNeeded"
    THEN (IF calls[c].pc = "done" THEN calls[c].result ELSE None)
    ELSE calls[c].fundingNeeded

\* C8: fundingNeeded is never negative; with skipBalanceCheck it is the
\* marked-up price (1.5 times the network price, rounded) and the balance is not
\* read; without it, it is zero when the balance read is at least the marked-up
\* price and the price less the balance otherwise.
C8_FundingNeeded ==
    \A c \in Calls :
        LET f == calls[c]
            price == Val(f.price)
            balance == Val(f.balance)
        IN Needed(c) # None =>
            /\ Val(Needed(c)) >= 0
            /\ 2 * price - 3 * UnitPrice * Len(f.files) \in {0, 1}
            /\ f.skipBalanceCheck => (Val(Needed(c)) = price /\ f.balance = None)
            /\ (~f.skipBalanceCheck /\ balance >= price) => Val(Needed(c)) = 0
            /\ (~f.skipBalanceCheck /\ balance < price) => Val(Needed(c)) = price - balance

\* C8 witness: fundingNeeded returned the price less a positive balance.
C8_PriceLessBalance ==
    \E c \in Calls :
        /\ calls[c].op = "fundingNeeded" /\ ~calls[c].skipBalanceCheck
        /\ calls[c].balance = Some(5000) /\ calls[c].price = Some(7502)
        /\ Needed(c) = Some(2502)

\* C9: fund asks the client for a deposit exactly when the computed
\* fundingNeeded is above zero, once and of exactly that amount, which the
\* ledger then gains; when it is zero fund asks for none and the step leaves the
\* funded balance as it was.
C9_DepositsExactlyWhatIsNeeded ==
    /\ [](\A c \in Calls :
            LET f == calls[c] IN
            IF f.op = "fundingNeeded" \/ f.fundingNeeded = None
            THEN Deposits(c) = <<>>
            ELSE IF Val(f.fundingNeeded) > 0
            THEN Deposits(c) = <<[ev |-> "fund", arg |-> Val(f.fundingNeeded)]>>
            ELSE Deposits(c) = <<>>)
    /\ [][\A c \in Calls :
            /\ (calls[c].fundingNeeded = None /\ calls'[c].fundingNeeded # None
                  /\ calls'[c].op # "fundingNeeded" /\ Val(calls'[c].fundingNeeded) <= 0)
                 => loadedBalance' = loadedBalance
            /\ (Len(Events(c, "fund.settled")') > Len(Events(c, "fund.settled"))
                  /\ calls'[c].pc # "failed")
                 => loadedBalance' = loadedBalance + Val(calls[c].fundingNeeded)]_vars

\* C9 witness: one fund deposited what was needed, a later one needed nothing.
C9_DepositedThenNothingNeeded ==
    \E c, d \in Calls :
        /\ calls[c].op = "fund" /\ calls[c].pc = "done" /\ Len(Deposits(c)) = 1
        /\ calls[d].op = "fund" /\ calls[d].pc = "done"
        /\ calls[d].fundingNeeded = Some(0) /\ ~calls[d].skipBalanceCheck

\* C10: withdraw asks the client to withdraw exactly the amount given, and
\* fails, with BundlrWithdrawError carrying the status, exactly when the status
\* returned is 300 or above.
C10_WithdrawFailsFrom300 ==
    \A c \in Calls :
        LET f == calls[c] IN
        /\ f.op = "withdraw" =>
              (Withdrawals(c) = <<>>
               \/ Withdrawals(c) = <<[ev |-> "withdrawBalance", arg |-> Val(f.lamports)]>>)
        /\ f.status # None =>
              IF Val(f.status) >= 300
              THEN /\ f.pc = "failed" /\ ErrorKind(f) = "BundlrWithdrawError"
                   /\ ErrorPayload(f) = Val(f.status)
              ELSE f.pc = "done"

\* C10 witness: one withdraw returned on status 299, another failed on 300.
C10_Status299And300 ==
    \E c, d \in Calls :
        /\ calls[c].op = "withdraw" /\ calls[c].status = Some(299) /\ calls[c].pc = "done"
        /\ calls[d].op = "withdraw" /\ calls[d].status = Some(300) /\ calls[d].pc = "failed"

\* C11: a driver constructed without the withdrawAfterUploading option starts
\* with the flag true; withdrawAfterUploading() makes it true and
\* dontWithdrawAfterUploading() makes it false, touching nothing else;
\* shouldWithdrawAfterUploading() is the flag's current value; and no step of
\* any other operation (one that changes a call, the client handle or the
\* ledger) changes the flag.
C11_OnlyTogglesChangeFlag ==
    /\ (options.withdrawAfterUploading = None => _withdrawAfterUploading = TRUE)
    /\ [][/\ withdrawAfterUploading => _withdrawAfterUploading' = TRUE
          /\ dontWithdrawAfterUploading => _withdrawAfterUploading' = FALSE
          /\ shouldWithdrawAfterUploading' = _withdrawAfterUploading'
          /\ _withdrawAfterUploading' # _withdrawAfterUploading =>
                UNCHANGED <<bundlr, options, identity, constructed, loadedBalance,
                            accepted, calls, log>>
          /\ (\E c \in Calls : calls'[c] # calls[c]) =>
                _withdrawAfterUploading' = _withdrawAfterUploading]_vars

\* C11 witness: a driver constructed without the option (flag true) was
\* switched off, and an uploadAll that ran since returned with the flag off.
C11_DefaultOnThenSwitchedOff ==
    /\ options.withdrawAfterUploading = None /\ ~_withdrawAfterUploading
    /\ \E c \in Calls : calls[c].op = "uploadAll" /\ calls[c].pc = "done"

\* C12: for every value x, isMetadata(x) returns true if x is an object whose
\* model is "metadata" and returns false otherwise (null, non-objects, objects
\* without a model or with another one), and assertMetadata(x) fails with the
\* assertion failure exactly when isMetadata(x) is false.
C12_GuardIsTotal ==
    mapper.value # None =>
        LET x == Val(mapper.value)
            expected == x.typeof = "object" /\ ~x.isNull /\ x.model = Some("metadata")
        IN /\ mapper.isMetadata # None => Val(mapper.isMetadata) = Returned(expected)
           /\ mapper.assertMetadata # None =>
                 Val(mapper.assertMetadata) =
                     IF expected THEN Returned(TRUE)
                     ELSE Thrown("AssertionError: Expected Metadata model")

\* C13 (as claimed): toMetadata(account) gives jsonLoaded = false and
\* json = null; toMetadata(account, doc) gives jsonLoaded = true and json = doc
\* whatever is passed as doc; and jsonLoaded = false implies json = null.
C13_SecondArgumentMeansLoaded ==
    mapper.metadata # None =>
        LET made == Val(mapper.metadata)
            arguments == Val(mapper.arguments)
        IN /\ arguments = <<>> => (~made.jsonLoaded /\ made.json = JsonNull)
           /\ arguments # <<>> => (made.jsonLoaded /\ made.json = arguments[1])
           /\ ~made.jsonLoaded => made.json = JsonNull

\* C13 (amended): with no second argument, or with undefined passed as the
\* second argument, jsonLoaded = false and json = null; with null or a
\* document passed, jsonLoaded = true and json is what was passed; and
\* jsonLoaded = false implies json = null.
C13_UndefinedMeansNotLoaded ==
    mapper.metadata # None =>
        LET made == Val(mapper.metadata)
            arguments == Val(mapper.arguments)
        IN /\ (arguments = <<>> \/ arguments = <<JsonUndefined>>) =>
                 (~made.jsonLoaded /\ made.json = JsonNull)
           /\ (arguments # <<>> /\ arguments # <<JsonUndefined>>) =>
                 (made.jsonLoaded /\ made.json = arguments[1])
           /\ ~made.jsonLoaded => made.json = JsonNull

\* C13 witness: toMetadata was given null as the document and reports it loaded.
C13_LoadedNull ==
    /\ mapper.arguments = Some(<<JsonNull>>) /\ mapper.metadata # None
    /\ Val(mapper.metadata).jsonLoaded /\ Val(mapper.metadata).json = JsonNull

\* C14: toMetadata gives an empty list of creators when the account has none,
\* null for each of collection, collectionDetails and uses that the account
\* lacks, and {version: "V1", size: n} for collectionDetails of kind V1 and
\* size n, the size as a BigNumber.
C14_AbsentFieldsDefaulted ==
    mapper.metadata # None =>
        LET made == Val(mapper.metadata)
            account == Val(mapper.account)
        IN /\ account.creators = None => made.creators = <<>>
           /\ account.collection = None => made.collection = None
           /\ account.collectionDetails = None => made.collectionDetails = None
           /\ account.uses = None => made.uses = None
           /\ \A n \in Sizes :
                 account.collectionDetails = Some([__kind |-> "V1", size |-> n]) =>
                     made.collectionDetails = Some([version |-> "V1", size |-> [bignumber |-> n]])

\* C14 witness: an account without creators, collection and uses, whose
\* collection details are V1 of size 2, was mapped.
C14_MappedBareAccountOfSize2 ==
    /\ mapper.metadata # None
    /\ Val(mapper.account).creators = None /\ Val(mapper.account).collection = None
    /\ Val(mapper.account).uses = None
    /\ Val(mapper.account).collectionDetails = Some([__kind |-> "V1", size |-> 2])
    /\ Val(mapper.metadata).creators = <<>>

\* What the log of call c holds: a response ev with answer arg.
Answered(c, ev, arg) == \E p \in 1..Len(log[c]) : log[c][p] = [ev |-> ev, arg |-> arg]

\* C15: a failed reachability check fails the call with
\* FailedToConnectToBundlrAddressError carrying the address and the cause, and
\* no handshake is then requested; ready() is requested only for a WebBundlr
\* (an identity that is not a KeypairIdentityDriver), after the reachability
\* check succeeded, and its failure fails the call with
\* FailedToInitializeBundlrError; a failing step leaves this.bundlr null, and
\* this.bundlr is assigned only in the step in which the last required check
\* succeeded.
C15_InitFailuresMapped ==
    /\ [](\A c \in Calls :
            LET f == calls[c] IN
            /\ Answered(c, "getBundlerAddress.settled", FALSE) =>
                  /\ f.pc = "failed" /\ Events(c, "ready") = <<>>
                  /\ ErrorKind(f) = "FailedToConnectToBundlrAddressError"
                  /\ ErrorPayload(f) = <<"https://node1.bundlr.network",
                                         "getBundlerAddress rejected">>
            /\ Events(c, "ready") # <<>> =>
                  /\ identity # "KeypairIdentityDriver"
                  /\ Answered(c, "getBundlerAddress.settled", TRUE)
            /\ (identity # "KeypairIdentityDriver"
                  /\ Answered(c, "getBundlerAddress.settled", TRUE)) =>
                  Events(c, "ready") # <<>>
            /\ Answered(c, "ready.settled", FALSE) =>
                  /\ f.pc = "failed" /\ ErrorKind(f) = "FailedToInitializeBundlrError"
                  /\ ErrorPayload(f) = <<"ready rejected">>)
    /\ [][/\ \A c \in Calls : (~InitFailed(c) /\ InitFailed(c)') => bundlr' = NoClient
          /\ (bundlr = NoClient /\ bundlr' # NoClient) =>
                \E c \in Calls :
                    /\ Len(log'[c]) > Len(log[c]) /\ bundlr' = calls[c].client
                    /\ log'[c][Len(log[c]) + 1] =
                           [ev |-> IF identity = "KeypairIdentityDriver"
                                   THEN "getBundlerAddress.settled" ELSE "ready.settled",
                            arg |-> TRUE]]_vars

\* C15 witness: one call failed on the reachability check, the next passed it
\* and failed on the handshake, and the handle is still unset.
C15_FailedToConnectThenToInitialize ==
    /\ bundlr = NoClient
    /\ \E c, d \in Calls :
           /\ ErrorKind(calls[c]) = "FailedToConnectToBundlrAddressError"
           /\ ErrorKind(calls[d]) = "FailedToInitializeBundlrError"

\* C16: an uploadFile whose upload returned a status of 300 or above fails
\* with AssetUploadFailedError carrying that status, and it fails in no other
\* case; on a status below 300 it returns "https://arweave.net/" followed by
\* the identifier the upload returned, which is what upload(file) returns.
C16_UploadFailsFrom300 ==
    \A c \in Calls :
        /\ \A i \in 1..Len(calls[c].up) :
              LET f == calls[c].up[i] IN
              /\ f.pc = "failed" => (f.status # None /\ Val(f.status) >= 300)
              /\ f.status # None =>
                    IF Val(f.status) >= 300
                    THEN /\ f.pc = "failed" /\ f.result = None
                         /\ ErrorKind(f) = "AssetUploadFailedError"
                         /\ ErrorPayload(f) = Val(f.status)
                    ELSE /\ f.pc = "done" /\ f.id # None
                         /\ f.result = Some("https://arweave.net/" \o Val(f.id))
        /\ (calls[c].op = "upload" /\ calls[c].pc = "done") =>
              calls[c].result = calls[c].up[1].result

\* C16 witness: of one batch, one upload returned 299 and its URI was made,
\* another returned 300 and failed.
C16_Status299Then300 ==
    \E c \in Calls : \E i, j \in 1..Len(calls[c].up) :
        /\ calls[c].up[i].status = Some(299)
        /\ calls[c].up[i].result = Some("https://arweave.net/tx1")
        /\ calls[c].up[j].status = Some(300) /\ calls[c].up[j].pc = "failed"

\* Call c is the latest one invoked.
Latest(c) == calls[c].pc # "idle" /\ \A d \in Calls : d > c => calls[d].pc = "idle"

\* No other call left work behind that ran during call c: calls are made one
\* after another, and only a batch that failed on a refused upload settles
\* while uploads of its own are still unanswered.
Alone(c) == \A d \in Calls \ {c} : ~SomeRefused(d)

\* C17: with calls made one after another and nothing left over from another
\* call, when fund(files) without skipBalanceCheck has returned, the funded
\* balance is at least the marked-up price of the files; and when uploadAll
\* has dispatched its uploads and none has been answered yet, the funded
\* balance is at least the marked-up price of the batch.
C17_FundedBeforeUploads ==
    \A c \in Calls :
        LET f == calls[c] IN
        /\ (f.op = "fund" /\ ~f.skipBalanceCheck /\ f.pc = "done" /\ Latest(c) /\ Alone(c)) =>
              loadedBalance >= Val(f.price)
        /\ (IsBatch(c) /\ f.up # <<>> /\ Events(c, "upload.resolved") = <<>> /\ Alone(c)) =>
              /\ loadedBalance >= Val(f.price)
              /\ Val(f.price) = MultipliedPrice(NetworkPrice(getBytes(f.files)))

\* C17 witness: an uploadAll of two files found less than their price on the
\* ledger, deposited the difference and dispatched both uploads.
C17_DepositedAndDispatched ==
    \E c \in Calls :
        /\ calls[c].op = "uploadAll" /\ Len(calls[c].up) = 2
        /\ Events(c, "upload.resolved") = <<>>
        /\ Len(Deposits(c)) = 1 /\ Deposits(c)[1].arg > 0
        /\ loadedBalance = Val(calls[c].price)

\* C18: while the first call on a fresh driver is an uploadAll and no other
\* call has been made, exactly one client has been constructed and checked,
\* whatever the number of files: the uploads are dispatched only once the
\* handle is memoized, and each of them got that memoized client without
\* constructing one.
C18_OneInitializationPerBatch ==
    (calls[1].op = "uploadAll" /\ calls[2].pc = "idle") =>
        /\ constructed = 1
        /\ Len(Events(1, "getBundlerAddress")) = 1
        /\ calls[1].up # <<>> =>
              /\ bundlr = 1 /\ Len(calls[1].up) = Len(calls[1].files)
              /\ \A p \in 1..Len(log[1]) :
                    log[1][p].ev = "upload" => First(1, "getBundlerAddress.settled") < p
        /\ \A i \in 1..Len(calls[1].up) :
              calls[1].up[i].handle = Some(bundlr) /\ calls[1].up[i].client = NoClient

\* C18 witness: the first call, an uploadAll of two files, has both uploads
\* in flight on the one client constructed.
C18_TwoUploadsOneClient ==
    /\ calls[1].op = "uploadAll" /\ calls[2].pc = "idle" /\ constructed = 1
    /\ Len(calls[1].up) = 2
    /\ \A i \in 1..2 : calls[1].up[i].pc = "upload" /\ calls[1].up[i].handle = Some(1)

\* What the network charged for the accepted uploads among the first n of call c.
RECURSIVE Charged(_, _)
Charged(c, n) ==
    IF n = 0 THEN 0
    ELSE Charged(c, n - 1)
         + (IF Uploaded(c, n) /\ Val(calls[c].up[n].status) < 300
            THEN UnitPrice * calls[c].files[n] ELSE 0)

\* C19: an uploadAll one of whose uploads was refused has failed and asks for
\* no withdrawal, whatever the flag: it neither reads the balance again nor
\* calls withdrawBalance; run alone on a fresh driver, it leaves on the ledger
\* the balance found plus the deposit made, less the charges of the uploads
\* the network accepted.
C19_NoWithdrawalAfterRefusal ==
    /\ \A c \in Calls :
          (IsBatch(c) /\ SomeRefused(c)) =>
              /\ calls[c].pc = "failed" /\ calls[c].uris = None
              /\ Withdrawals(c) = <<>>
              /\ Len(Events(c, "getLoadedBalance")) = 1
              /\ Events(c, "Promise.all.resolved") = <<>>
    /\ (IsBatch(1) /\ SomeRefused(1) /\ calls[2].pc = "idle") =>
          loadedBalance = Events(1, "getLoadedBalance.resolved")[1].arg
                          + (IF Deposits(1) = <<>> THEN 0 ELSE Deposits(1)[1].arg)
                          - Charged(1, Len(calls[1].files))

\* C19 witness: with the flag on, an uploadAll deposited, had one upload
\* accepted and one refused, and failed with more than the reserve left on
\* the ledger.
C19_DepositLeftAfterRefusal ==
    \E c \in Calls :
        /\ calls[c].op = "uploadAll" /\ calls[c].pc = "failed" /\ _withdrawAfterUploading
        /\ Len(Deposits(c)) = 1 /\ Len(Events(c, "upload.resolved")) = 2
        /\ SomeRefused(c) /\ Charged(c, 2) > 0
        /\ loadedBalance > 5000

\* C20: whether uploadAll goes on to withdrawAll is decided by the flag's
\* value in the step in which the last upload is answered, whatever its value
\* was when uploadAll was called: with the flag then on it reads the balance
\* for the withdrawal, with the flag then off it returns the URIs at once and
\* never asks for a withdrawal.
C20_FlagReadAfterUploads ==
    /\ [](\A c \in Calls :
            Events(c, "Promise.all.resolved") # <<>> =>
                IF Events(c, "Promise.all.resolved")[1].arg
                THEN Len(Events(c, "getLoadedBalance")) = 2
                ELSE /\ Len(Events(c, "getLoadedBalance")) = 1
                     /\ Withdrawals(c) = <<>> /\ calls[c].pc = "done")
    /\ [][\A c \in Calls :
            (Events(c, "Promise.all.resolved") = <<>>
               /\ Events(c, "Promise.all.resolved")' # <<>>) =>
                /\ Events(c, "Promise.all.resolved")'[1].arg = _withdrawAfterUploading
                /\ (calls'[c].pc = "getLoadedBalance") = _withdrawAfterUploading]_vars

\* C20 witness: an uploadAll called with the flag on, whose uploads were all
\* accepted after the flag was switched off, returned without a withdrawal
\* though more than the reserve is on the ledger; another, called with the
\* flag off and joined with it on, withdrew.
C20_ToggledWhileUploading ==
    /\ \E c \in Calls :
          /\ calls[c].op = "uploadAll" /\ calls[c].pc = "done" /\ calls[c].files # <<>>
          /\ Events(c, "uploadAll")[1].arg /\ ~Events(c, "Promise.all.resolved")[1].arg
          /\ Withdrawals(c) = <<>> /\ loadedBalance > 5000
    /\ \E d \in Calls :
          /\ calls[d].op = "uploadAll" /\ calls[d].files # <<>>
          /\ ~Events(d, "uploadAll")[1].arg /\ Events(d, "Promise.all.resolved") # <<>>
          /\ Events(d, "Promise.all.resolved")[1].arg /\ Withdrawals(d) # <<>>

====
